---------------------------- MODULE Spec2Model ----------------------------
(***************************************************************************)
(* Model of scripts/reindex.ts: the reindex command of the semantic-search *)
(* demo.  One run of the script is one behaviour: the module-level         *)
(* configuration checks, main(), the delete loop (--clean), the index      *)
(* loop, the summary and the process exit.  Every await of a fetch is a    *)
(* suspension point, so a request is issued in one step and its outcome    *)
(* (a response with a status and a body, or a rejection) is taken in       *)
(* another.  A response is modelled with its body: res.text() resolves.    *)
(***************************************************************************)
EXTENDS Integers, Sequences, FiniteSets, TLC

VARIABLES
    env,        \* process.env after dotenv: API_URL, API_KEY, API_KEY_WRITER
    argv,       \* process.argv.slice(2)
    seedFile,   \* content of seed-data.json: a list of documents, or unusable
    pc,         \* position of the script
    documents,  \* const documents of main()
    i,          \* position of the running for-of loop in documents (1-based)
    inflight,   \* requests issued by fetch and not yet settled
    requests,   \* every request issued so far, in order
    responses,  \* every response received so far, in order
    success,    \* let success of main()
    failed,     \* let failed of main()
    res,        \* const res of the last deleteDocument / indexDocument call
    ok,         \* value returned by the last deleteDocument / indexDocument
    stdout,     \* console.log lines
    stderr,     \* console.error lines
    exitCode    \* exit code of the process, -1 while it runs

vars == <<env, argv, seedFile, pc, documents, i, inflight, requests,
          responses, success, failed, res, ok, stdout, stderr, exitCode>>

----------------------------------------------------------------------------
(* Bounds of the model *)

MaxDocs == 2

Ids == {"a", "b"}

Statuses == {200, 404, 500}

Bodies == {"", "internal error"}

----------------------------------------------------------------------------
(* Values *)

None == "none"

Undefined == "undefined"

EnvUrls == {Undefined, "", "http://localhost:8787"}

EnvKeys == {Undefined, "", "key-admin"}

EnvWriterKeys == {Undefined, "key-writer"}

Argvs == {<<>>, <<"--clean">>, <<"--dry-run">>}

SeedDocument == [id : Ids, text : {"text"}]

RECURSIVE SeqsUpTo(_, _)
SeqsUpTo(S, n) ==
    IF n = 0 THEN {<<>>}
    ELSE LET shorter == SeqsUpTo(S, n - 1)
         IN  shorter \cup {Append(s, x) : s \in {t \in shorter : Len(t) = n - 1}, x \in S}

\* seed-data.json: parsed to a list of documents, or readFileSync / JSON.parse throws
Unreadable == "ENOENT"

Malformed == "SyntaxError"

SeedFiles ==
    {[error |-> None, docs |-> d] : d \in SeqsUpTo(SeedDocument, MaxDocs)}
        \cup {[error |-> e, docs |-> <<>>] : e \in {Unreadable, Malformed}}

Range(s) == {s[k] : k \in DOMAIN s}

----------------------------------------------------------------------------
(* Module level: configuration *)

\* JavaScript truthiness of an environment value (string | undefined)
Truthy(v) == v # Undefined /\ v # ""

API_URL == env.API_URL

API_KEY == IF Truthy(env.API_KEY) THEN env.API_KEY ELSE env.API_KEY_WRITER

\* variant: any argument switches clean mode on
shouldCleanAnyArgument == argv # <<>>

shouldClean == "--clean" \in Range(argv)

\* Response.ok of the fetch API
ResOk(status) == status >= 200 /\ status <= 299

Exit(code) ==
    /\ exitCode' = code
    /\ pc' = "exited"

\* variant: the API key check is left out
CheckConfigUrlOnly ==
    /\ pc = "config"
    /\ IF ~Truthy(API_URL)
       THEN /\ stderr' = Append(stderr, [tag |-> "ConfigError", what |-> "API_URL"])
            /\ Exit(1)
       ELSE /\ pc' = "main"
            /\ UNCHANGED <<stderr, exitCode>>
    /\ UNCHANGED <<env, argv, seedFile, documents, i, inflight, requests,
                   responses, success, failed, res, ok, stdout>>

CheckConfig ==
    /\ pc = "config"
    /\ IF ~Truthy(API_URL)
       THEN /\ stderr' = Append(stderr, [tag |-> "ConfigError", what |-> "API_URL"])
            /\ Exit(1)
       ELSE IF ~Truthy(API_KEY)
       THEN /\ stderr' = Append(stderr, [tag |-> "ConfigError", what |-> "API_KEY"])
            /\ Exit(1)
       ELSE /\ pc' = "main"
            /\ UNCHANGED <<stderr, exitCode>>
    /\ UNCHANGED <<env, argv, seedFile, documents, i, inflight, requests,
                   responses, success, failed, res, ok, stdout>>

----------------------------------------------------------------------------
(* main() up to the first loop *)

LoadThrows == seedFile.error # None

loadSeedData == seedFile.docs

Main ==
    /\ pc = "main"
    /\ IF LoadThrows
       THEN /\ stdout' = Append(stdout, [tag |-> "Header", clean |-> shouldClean])
            /\ pc' = "catch"
            /\ UNCHANGED <<documents, i>>
       ELSE /\ documents' = loadSeedData
            /\ stdout' = stdout \o
                 << [tag |-> "Header", clean |-> shouldClean],
                    [tag |-> "Loaded", n |-> Len(loadSeedData)] >>
            /\ i' = 1
            /\ pc' = IF shouldClean THEN "delete" ELSE "index"
    /\ UNCHANGED <<env, argv, seedFile, inflight, requests, responses,
                   success, failed, res, ok, stderr, exitCode>>

----------------------------------------------------------------------------
(* fetch *)

Request(method, doc) ==
    [ method |-> method,
      id     |-> doc.id,
      auth   |-> API_KEY,
      seq    |-> Len(requests) + 1 ]

Fetch(method, doc) ==
    /\ requests' = Append(requests, Request(method, doc))
    /\ inflight' = inflight \cup {Request(method, doc)}

\* the awaited fetch rejects: the exception leaves main()
FetchRejects ==
    /\ pc \in {"delete_await", "index_await"}
    /\ \E r \in inflight :
         /\ inflight' = inflight \ {r}
         /\ pc' = "catch"
    /\ UNCHANGED <<env, argv, seedFile, documents, i, requests, responses,
                   success, failed, res, ok, stdout, stderr, exitCode>>

----------------------------------------------------------------------------
(* deleteDocument and the delete loop *)

\* variant: deleteDocument is called without await
DeleteFetchNoAwait ==
    /\ pc = "delete"
    /\ i <= Len(documents)
    /\ Fetch("DELETE", documents[i])
    /\ i' = i + 1
    /\ UNCHANGED <<env, argv, seedFile, pc, documents, responses, success,
                   failed, res, ok, stdout, stderr, exitCode>>

DeleteFetch ==
    /\ pc = "delete"
    /\ i <= Len(documents)
    /\ Fetch("DELETE", documents[i])
    /\ pc' = "delete_await"
    /\ UNCHANGED <<env, argv, seedFile, documents, i, responses, success,
                   failed, res, ok, stdout, stderr, exitCode>>

\* variant: 404 is not treated as success
DeleteResultOkOnly(status) == ResOk(status)

DeleteResult(status) == ResOk(status) \/ status = 404

DeleteSettle(id, status, text) ==
    /\ ok' = DeleteResult(status)
    /\ IF ResOk(status)
       THEN /\ stdout' = Append(stdout, [tag |-> "Deleted", id |-> id])
            /\ UNCHANGED stderr
       ELSE IF status = 404
       THEN /\ stdout' = Append(stdout, [tag |-> "NotFound", id |-> id])
            /\ UNCHANGED stderr
       ELSE /\ stderr' = Append(stderr, [tag |-> "FailedDelete", id |-> id,
                                         status |-> status, text |-> text])
            /\ UNCHANGED stdout

\* variant: a failed delete is counted in failed
DeleteResponseTallies ==
    /\ pc = "delete_await"
    /\ \E r \in inflight, status \in Statuses, text \in Bodies :
         /\ r.method = "DELETE"
         /\ inflight' = inflight \ {r}
         /\ responses' = Append(responses, [method |-> "DELETE", id |-> r.id,
                                             seq |-> r.seq, status |-> status])
         /\ res' = [status |-> status, text |-> text]
         /\ DeleteSettle(r.id, status, text)
    /\ failed' = IF ok' THEN failed ELSE failed + 1
    /\ i' = i + 1
    /\ pc' = "delete"
    /\ UNCHANGED <<env, argv, seedFile, documents, requests, success, exitCode>>

DeleteResponse ==
    /\ pc = "delete_await"
    /\ \E r \in inflight, status \in Statuses, text \in Bodies :
         /\ r.method = "DELETE"
         /\ inflight' = inflight \ {r}
         /\ responses' = Append(responses, [method |-> "DELETE", id |-> r.id,
                                             seq |-> r.seq, status |-> status])
         /\ res' = [status |-> status, text |-> text]
         /\ DeleteSettle(r.id, status, text)
    /\ i' = i + 1
    /\ pc' = "delete"
    /\ UNCHANGED <<env, argv, seedFile, documents, requests, success, failed,
                   exitCode>>

\* variant: the delete loop stops one document early
DeleteLoopEndEarly ==
    /\ pc = "delete"
    /\ i >= Len(documents)
    /\ i' = 1
    /\ pc' = "index"
    /\ UNCHANGED <<env, argv, seedFile, documents, inflight, requests,
                   responses, success, failed, res, ok, stdout, stderr, exitCode>>

DeleteLoopEnd ==
    /\ pc = "delete"
    /\ i > Len(documents)
    /\ i' = 1
    /\ pc' = "index"
    /\ UNCHANGED <<env, argv, seedFile, documents, inflight, requests,
                   responses, success, failed, res, ok, stdout, stderr, exitCode>>

----------------------------------------------------------------------------
(* indexDocument and the index loop *)

IndexFetch ==
    /\ pc = "index"
    /\ i <= Len(documents)
    /\ Fetch("POST", documents[i])
    /\ pc' = "index_await"
    /\ UNCHANGED <<env, argv, seedFile, documents, i, responses, success,
                   failed, res, ok, stdout, stderr, exitCode>>

IndexResult(status) == ResOk(status)

\* variant: a failed index request is not logged
IndexSettleNoLog(id, status, text) ==
    /\ ok' = IndexResult(status)
    /\ IF ResOk(status)
       THEN /\ stdout' = Append(stdout, [tag |-> "Indexed", id |-> id])
            /\ UNCHANGED stderr
       ELSE UNCHANGED <<stdout, stderr>>

IndexSettle(id, status, text) ==
    /\ ok' = IndexResult(status)
    /\ IF ResOk(status)
       THEN /\ stdout' = Append(stdout, [tag |-> "Indexed", id |-> id])
            /\ UNCHANGED stderr
       ELSE /\ stderr' = Append(stderr, [tag |-> "FailedIndex", id |-> id,
                                         status |-> status, text |-> text])
            /\ UNCHANGED stdout

\* variant: every index call is counted as a success
TallyAlwaysSuccess == success' = success + 1 /\ UNCHANGED failed

Tally ==
    IF ok'
    THEN success' = success + 1 /\ UNCHANGED failed
    ELSE failed' = failed + 1 /\ UNCHANGED success

\* variant: the index loop breaks at the first failure
IndexResponseBreaks ==
    /\ pc = "index_await"
    /\ \E r \in inflight, status \in Statuses, text \in Bodies :
         /\ r.method = "POST"
         /\ inflight' = inflight \ {r}
         /\ responses' = Append(responses, [method |-> "POST", id |-> r.id,
                                             seq |-> r.seq, status |-> status])
         /\ res' = [status |-> status, text |-> text]
         /\ IndexSettle(r.id, status, text)
    /\ Tally
    /\ i' = IF ok' THEN i + 1 ELSE Len(documents) + 1
    /\ pc' = "index"
    /\ UNCHANGED <<env, argv, seedFile, documents, requests, exitCode>>

IndexResponse ==
    /\ pc = "index_await"
    /\ \E r \in inflight, status \in Statuses, text \in Bodies :
         /\ r.method = "POST"
         /\ inflight' = inflight \ {r}
         /\ responses' = Append(responses, [method |-> "POST", id |-> r.id,
                                             seq |-> r.seq, status |-> status])
         /\ res' = [status |-> status, text |-> text]
         /\ IndexSettle(r.id, status, text)
    /\ Tally
    /\ i' = i + 1
    /\ pc' = "index"
    /\ UNCHANGED <<env, argv, seedFile, documents, requests, exitCode>>

----------------------------------------------------------------------------
(* summary and exit *)

Summary ==
    /\ pc = "index"
    /\ i > Len(documents)
    /\ stdout' = Append(stdout, [tag |-> "Done", indexed |-> success,
                                 failed |-> failed])
    /\ IF failed > 0 THEN Exit(1) ELSE Exit(0)
    /\ UNCHANGED <<env, argv, seedFile, documents, i, inflight, requests,
                   responses, success, failed, res, ok, stderr>>

\* variant: the top-level catch logs the error and does not exit with 1
MainCatchExitZero ==
    /\ pc = "catch"
    /\ stderr' = Append(stderr, [tag |-> "Fatal"])
    /\ Exit(0)
    /\ UNCHANGED <<env, argv, seedFile, documents, i, inflight, requests,
                   responses, success, failed, res, ok, stdout>>

MainCatch ==
    /\ pc = "catch"
    /\ stderr' = Append(stderr, [tag |-> "Fatal"])
    /\ Exit(1)
    /\ UNCHANGED <<env, argv, seedFile, documents, i, inflight, requests,
                   responses, success, failed, res, ok, stdout>>

----------------------------------------------------------------------------

Init ==
    /\ env \in [API_URL : EnvUrls, API_KEY : EnvKeys, API_KEY_WRITER : EnvWriterKeys]
    /\ argv \in Argvs
    /\ seedFile \in SeedFiles
    /\ pc = "config"
    /\ documents = <<>>
    /\ i = 1
    /\ inflight = {}
    /\ requests = <<>>
    /\ responses = <<>>
    /\ success = 0
    /\ failed = 0
    /\ res = [status |-> 0, text |-> ""]
    /\ ok = FALSE
    /\ stdout = <<>>
    /\ stderr = <<>>
    /\ exitCode = -1

Next ==
    \/ CheckConfig
    \/ Main
    \/ DeleteFetch
    \/ DeleteResponse
    \/ DeleteLoopEnd
    \/ IndexFetch
    \/ IndexResponse
    \/ FetchRejects
    \/ Summary
    \/ MainCatch

Spec == Init /\ [][Next]_vars

----------------------------------------------------------------------------
(* Vocabulary of the properties: inputs of the run and what it let out *)

Missing(v) == v \in {Undefined, ""}

ConfigMissing ==
    \/ Missing(env.API_URL)
    \/ Missing(env.API_KEY) /\ Missing(env.API_KEY_WRITER)

CleanFlag == \E k \in DOMAIN argv : argv[k] = "--clean"

\* N: the number of documents of the seed file
N == Len(seedFile.docs)

Of(s, method) == SelectSeq(s, LAMBDA r : r.method = method)

DeleteRequests == Of(requests, "DELETE")

IndexRequests == Of(requests, "POST")

DeleteResponses == Of(responses, "DELETE")

IndexResponses == Of(responses, "POST")

\* reqs are requests for the first documents of the seed file, in file order
MatchesSeed(reqs) ==
    /\ Len(reqs) <= N
    /\ \A k \in 1..Len(reqs) : reqs[k].id = seedFile.docs[k].id

\* reqs are requests for all N documents of the seed file, in file order
CoversSeed(reqs) == MatchesSeed(reqs) /\ Len(reqs) = N

SuccessStatus(status) == status \in 200..299

FailedIndexResponses == SelectSeq(IndexResponses, LAMBDA r : ~SuccessStatus(r.status))

FailedDeleteResponses ==
    SelectSeq(DeleteResponses, LAMBDA r : ~SuccessStatus(r.status) /\ r.status # 404)

Summaries == SelectSeq(stdout, LAMBDA l : l.tag = "Done")

SummaryPrinted == Summaries # <<>>

Logged(tag) == SelectSeq(stderr, LAMBDA l : l.tag = tag)

Exited == pc = "exited"

\* a fetch was rejected: its request is settled and has no response
Rejected == inflight = {} /\ Len(responses) < Len(requests)

\* the run met no fatal error: configuration present, seed file loaded, no
\* request rejected
NoFatal ==
    /\ ~ConfigMissing
    /\ seedFile.error = None
    /\ Len(responses) = Len(requests)

----------------------------------------------------------------------------
(* C1: with API_URL missing, or API_KEY and API_KEY_WRITER both missing,   *)
(* the run never gets past the configuration check: it issues no request,  *)
(* does not load the seed file, and when it has ended its exit code is 1.  *)
C1_MissingConfigIsFatal ==
    ConfigMissing =>
        /\ pc \in {"config", "exited"}
        /\ requests = <<>>
        /\ inflight = {}
        /\ documents = <<>>
        /\ stdout = <<>>
        /\ Exited => exitCode = 1 /\ Len(Logged("ConfigError")) = 1

C1_Witness ==
    /\ Exited
    /\ ~Missing(env.API_URL)
    /\ env.API_KEY = Undefined
    /\ env.API_KEY_WRITER = Undefined
    /\ N = MaxDocs
    /\ exitCode = 1

(* C2: with --clean, no delete request follows an index request, the       *)
(* delete requests go to the seed documents in file order, and once an     *)
(* index request has been issued, or the run has ended without a fatal     *)
(* error, exactly N delete requests have been issued, one per document.    *)
C2_CleanDeletesAllBeforeIndex ==
    CleanFlag =>
        /\ \A j, k \in DOMAIN requests :
             requests[j].method = "POST" /\ requests[k].method = "DELETE" => k < j
        /\ MatchesSeed(DeleteRequests)
        /\ IndexRequests # <<>> => CoversSeed(DeleteRequests)
        /\ Exited /\ NoFatal => CoversSeed(DeleteRequests)

C2_Witness ==
    /\ CleanFlag
    /\ Exited
    /\ NoFatal
    /\ N >= 2
    /\ Len(DeleteRequests) = N
    /\ Len(IndexRequests) = N

(* C3: without --clean no delete request is ever issued, the index         *)
(* requests go to the seed documents in file order, and a run that ends    *)
(* without a fatal error has issued exactly N index requests.              *)
C3_NoCleanIndexesOnly ==
    ~CleanFlag =>
        /\ DeleteRequests = <<>>
        /\ MatchesSeed(IndexRequests)
        /\ Exited /\ NoFatal => CoversSeed(IndexRequests)

C3_Witness ==
    /\ ~CleanFlag
    /\ Exited
    /\ NoFatal
    /\ N >= 2
    /\ Len(IndexRequests) = N
    /\ DeleteRequests = <<>>

C6_AllIndexedExitsZero ==
    Exited /\ NoFatal /\ FailedIndexResponses = <<>> =>
        /\ exitCode = 0
        /\ Len(Summaries) = 1
        /\ Summaries[1].indexed = N
        /\ Summaries[1].failed = 0
        /\ stdout[Len(stdout)].tag = "Done"

C6_Witness ==
    /\ Exited
    /\ NoFatal
    /\ CleanFlag
    /\ N >= 2
    /\ FailedIndexResponses = <<>>
    /\ FailedDeleteResponses # <<>>
    /\ exitCode = 0

(* C7: when deleteDocument has returned, its result is true exactly when   *)
(* the response status is a success status or 404; otherwise the last      *)
(* line of the failure log names the document id, the status and the       *)
(* response body; a delete that succeeded or met 404 is not logged there.  *)
DeleteReturned == pc = "delete" /\ i > 1

C9_OneRequestAtATimeInFileOrder ==
    /\ Cardinality(inflight) <= 1
    /\ Len(requests) <= Len(responses) + 1
    /\ \A k \in DOMAIN responses :
         /\ responses[k].seq = k
         /\ responses[k].method = requests[k].method
         /\ responses[k].id = requests[k].id
    /\ \A r \in inflight : r = requests[Len(requests)]
    /\ MatchesSeed(DeleteRequests)
    /\ MatchesSeed(IndexRequests)
    /\ Len(DeleteRequests) <= Len(DeleteResponses) + 1
    /\ Len(IndexRequests) <= Len(IndexResponses) + 1

C9_Witness ==
    /\ pc = "index_await"
    /\ CleanFlag
    /\ i = 2
    /\ Cardinality(inflight) = 1
    /\ Len(DeleteResponses) = 2
    /\ Len(IndexResponses) = 1

(* C10: when loading the seed file throws or a fetch is rejected, the      *)
(* script is in the top-level catch or has exited with code 1 and a fatal  *)
(* error line; the rejected request is the last request of the run, and    *)
(* no summary is printed.                                                  *)
Thrown ==
    \/ seedFile.error # None /\ pc \notin {"config", "main"}
    \/ Rejected

C10_ExceptionIsFatal ==
    ~ConfigMissing /\ Thrown =>
        /\ pc \in {"catch", "exited"}
        /\ Exited => exitCode = 1 /\ Len(Logged("Fatal")) = 1
        /\ ~SummaryPrinted
        /\ seedFile.error # None => requests = <<>>
        /\ Rejected => Len(requests) = Len(responses) + 1

C10_Witness ==
    /\ Exited
    /\ Rejected
    /\ Len(responses) >= 1
    /\ Len(DeleteRequests) = 2
    /\ Len(IndexRequests) = 1
    /\ exitCode = 1

=============================================================================
